---------------------------- MODULE Spec2Model ----------------------------
(***************************************************************************)
(* A model of taupe (src/taupe/__main__.py), the extractor of URLs from a  *)
(* personal Twitter archive.  A run of the program is one pass: find the   *)
(* account name in the ZIP archive, parse the tweets or the likes member   *)
(* into 4-tuples (date, own url, type, referenced url), map the requested  *)
(* projection over them, drop the empty results and write the rest.        *)
(*                                                                         *)
(* Python strings are modelled as sequences of one-character strings, so   *)
(* that slicing, find, replace, startswith and the regular expression of   *)
(* the source are computed character by character.                         *)
(***************************************************************************)
EXTENDS Integers, Sequences, FiniteSets, TLC

\* ------------------------------------------------------------------------
\* Python's values and string primitives, as the source uses them.
\* ------------------------------------------------------------------------

\* Python's None (also a key that is absent from a JSON object).
None == <<"None">>

\* The ASCII characters 32 (space) to 95 (underscore) in code point order.
Printable ==
    << " ", "!", "\"", "#", "$", "%", "&", "'", "(", ")", "*", "+", ",", "-", ".", "/",
       "0", "1", "2", "3", "4", "5", "6", "7", "8", "9", ":", ";", "<", "=", ">", "?",
       "@", "A", "B", "C", "D", "E", "F", "G", "H", "I", "J", "K", "L", "M", "N", "O",
       "P", "Q", "R", "S", "T", "U", "V", "W", "X", "Y", "Z", "[", "\\", "]", "^", "_" >>

\* The ASCII lower-case letters, 97 to 122, in code point order.
Lowercase ==
    << "a", "b", "c", "d", "e", "f", "g", "h", "i", "j", "k", "l", "m", "n", "o",
       "p", "q", "r", "s", "t", "u", "v", "w", "x", "y", "z" >>

\* ord(c): the code point of a character (strings compare by code point).
ord ==
    [c \in {Printable[i] : i \in 1..Len(Printable)}
            \cup {Lowercase[i] : i \in 1..Len(Lowercase)} \cup {"\t", "\n", "\r", "\f"} |->
        CASE c = "\t" -> 9
          [] c = "\n" -> 10
          [] c = "\f" -> 12
          [] c = "\r" -> 13
          [] \E i \in 1..Len(Lowercase) : Lowercase[i] = c ->
                96 + (CHOOSE i \in 1..Len(Lowercase) : Lowercase[i] = c)
          [] OTHER -> 31 + (CHOOSE i \in 1..Len(Printable) : Printable[i] = c)]

\* The characters the regular expression class \s matches (so \S is the rest).
Whitespace == {" ", "\t", "\n", "\r", "\f"}

Min(a, b) == IF a < b THEN a ELSE b
Max(a, b) == IF a > b THEN a ELSE b

\* s < t for Python strings: lexicographic by code point.
StrLess(s, t) ==
    \E k \in 1..(Min(Len(s), Len(t)) + 1) :
        /\ \A j \in 1..(k - 1) : s[j] = t[j]
        /\ \/ k = Len(s) + 1 /\ k <= Len(t)
           \/ k <= Len(s) /\ k <= Len(t) /\ ord[s[k]] < ord[t[k]]

\* r < q for Python tuples of strings: lexicographic by element.
RowLess(r, q) ==
    \E k \in 1..Min(Len(r), Len(q)) :
        /\ \A j \in 1..(k - 1) : r[j] = q[j]
        /\ StrLess(r[k], q[k])

\* s.startswith(p)
StartsWith(s, p) == Len(s) >= Len(p) /\ SubSeq(s, 1, Len(p)) = p

\* s[n:] for n >= 0
SliceFrom(s, n) == SubSeq(s, Min(n, Len(s)) + 1, Len(s))

\* s[:n], where a negative n counts from the end
SliceTo(s, n) ==
    IF n < 0 THEN SubSeq(s, 1, Max(Len(s) + n, 0))
             ELSE SubSeq(s, 1, Min(n, Len(s)))

\* s.find(c) for a one-character c: the 0-based index of the first c, or -1
Find(s, c) ==
    IF \E i \in 1..Len(s) : s[i] = c
    THEN (CHOOSE i \in 1..Len(s) : s[i] = c /\ \A j \in 1..(i - 1) : s[j] # c) - 1
    ELSE -1

\* s.rfind(c) for a one-character c: the 0-based index of the last c, or -1
RFind(s, c) ==
    IF \E i \in 1..Len(s) : s[i] = c
    THEN (CHOOSE i \in 1..Len(s) : s[i] = c /\ \A j \in (i + 1)..Len(s) : s[j] # c) - 1
    ELSE -1

\* s.replace(old, new) for a non-empty old: every occurrence, left to right,
\* without overlap.
RECURSIVE Replace(_, _, _)
Replace(s, old, new) ==
    IF Len(s) < Len(old) THEN s
    ELSE IF SubSeq(s, 1, Len(old)) = old
         THEN new \o Replace(SubSeq(s, Len(old) + 1, Len(s)), old, new)
         ELSE <<s[1]>> \o Replace(Tail(s), old, new)

\* sep.join(row)
RECURSIVE Join(_, _)
Join(row, sep) ==
    IF row = <<>> THEN <<>>
    ELSE IF Len(row) = 1 THEN row[1]
    ELSE row[1] \o sep \o Join(Tail(row), sep)

\* sorted(rows): ascending by RowLess (equal rows are the same row).
RECURSIVE Insert(_, _)
Insert(r, sorted) ==
    IF sorted = <<>> THEN <<r>>
    ELSE IF RowLess(r, sorted[1]) THEN <<r>> \o sorted
    ELSE <<sorted[1]>> \o Insert(r, Tail(sorted))

\* Sorted without the sorting: the rows as they stand.
Unsorted(rows) == rows

RECURSIVE Sorted(_)
Sorted(rows) ==
    IF rows = <<>> THEN <<>>
    ELSE Insert(rows[Len(rows)], Sorted(SubSeq(rows, 1, Len(rows) - 1)))

\* ------------------------------------------------------------------------
\* The string literals of the source.
\* ------------------------------------------------------------------------

\* 'twitter': the account of a canonical URL, and the stand-in for the
\* author of a deleted tweet.
TWITTER == <<"t","w","i","t","t","e","r">>

\* 'https://twitter.com/'
TWITTER_URL_PREFIX ==
    <<"h","t","t","p","s",":","/","/","t","w","i","t","t","e","r",".","c","o","m","/">>

\* 'https://twitter.com', what the expanded URL of a quoted tweet starts with.
HTTPS_TWITTER_COM ==
    <<"h","t","t","p","s",":","/","/","t","w","i","t","t","e","r",".","c","o","m">>

\* '/status/'
STATUS_PATH == <<"/","s","t","a","t","u","s","/">>

\* 'i/web', the placeholder path of the URL of a liked tweet.
I_WEB == <<"i","/","w","e","b">>

\* 'RT @', what the text of a retweet starts with.
RT_AT == <<"R","T"," ","@">>

\* 'https://t.co/', the literal part of the pattern ending_in_twitter_url.
T_CO == <<"h","t","t","p","s",":","/","/","t",".","c","o","/">>

\* The types of a tuple: 'tweet', 'reply', 'retweet', 'quote' and 'like'.
TWEET   == <<"t","w","e","e","t">>
REPLY   == <<"r","e","p","l","y">>
RETWEET == <<"r","e","t","w","e","e","t">>
QUOTE   == <<"q","u","o","t","e">>
LIKE    == <<"l","i","k","e">>

\* The members of the archive that parsed_data looks for.
ACCOUNT_JS == "data/account.js"
LIKE_JS    == "data/like.js"
TWEETS_JS  == "data/tweets.js"

\* The canonical names of the --extract values (the values of EXTRACT_OPTIONS).
EXTRACT_OPTIONS ==
    {"all-tweets", "my-tweets", "retweets", "quote-tweets", "reply-tweets", "likes"}

\* ExitCode
ExitCode ==
    [success |-> 0, user_interrupt |-> 1, bad_arg |-> 2, file_error |-> 3,
     exception |-> 4]

\* ------------------------------------------------------------------------
\* tweets_from and its helper functions.
\* ------------------------------------------------------------------------

\* The month names of the created_at field, "Mon Jan 01 00:00:00 +0000 2024".
Months ==
    << <<"J","a","n">>, <<"F","e","b">>, <<"M","a","r">>, <<"A","p","r">>,
       <<"M","a","y">>, <<"J","u","n">>, <<"J","u","l">>, <<"A","u","g">>,
       <<"S","e","p">>, <<"O","c","t">>, <<"N","o","v">>, <<"D","e","c">> >>

Digits == <<"0","1","2","3","4","5","6","7","8","9">>

\* dateutil's parse() of a created_at string: the fields by their places.
parse(s) ==
    [year  |-> SubSeq(s, 27, 30),
     month |-> CHOOSE m \in 1..Len(Months) : Months[m] = SubSeq(s, 5, 7),
     day   |-> SubSeq(s, 9, 10),
     time  |-> SubSeq(s, 12, 19),
     tz    |-> SubSeq(s, 21, 25)]

\* datetime.isoformat(): YYYY-MM-DDTHH:MM:SS+HH:MM
isoformat(d) ==
    d.year \o <<"-">> \o <<Digits[(d.month \div 10) + 1], Digits[(d.month % 10) + 1]>>
           \o <<"-">> \o d.day \o <<"T">> \o d.time
           \o SubSeq(d.tz, 1, 3) \o <<":">> \o SubSeq(d.tz, 4, 5)

tweet_date(tweet) == isoformat(parse(tweet.created_at))

\* The account a URL is built with: 'twitter' if canonical_urls else username.
account_of(username, canonical_urls) ==
    IF canonical_urls THEN TWITTER ELSE username

tweet_url(tweet, username, canonical_urls) ==
    TWITTER_URL_PREFIX \o account_of(username, canonical_urls) \o STATUS_PATH
        \o tweet.id_str

\* user_from_tweet_url cutting the URL one character early, at url[19:].
user_from_tweet_url_19(url, canonical_urls) ==
    IF canonical_urls THEN TWITTER
    ELSE LET fragment == SliceFrom(url, 19)
         IN  SliceTo(fragment, Find(fragment, "/"))

\* USERNAME out of https://twitter.com/USERNAME/status/TWEETID: what follows
\* the first 20 characters, up to the first '/' (find's -1, when there is no
\* '/', cuts the last character).
user_from_tweet_url(url, canonical_urls) ==
    IF canonical_urls THEN TWITTER
    ELSE LET fragment == SliceFrom(url, 20)
         IN  SliceTo(fragment, Find(fragment, "/"))

\* ending_in_twitter_url.match(text), the pattern .*(https://t.co/\S+)$ :
\* group 1 of the match, or None.  '.' matches no line break, so no line break
\* may precede the group; '.*' is greedy, so the group starts at the last
\* place it can; '$' matches at the end and before a line break that ends
\* the text.
ending_in_twitter_url(text) ==
    LET stop == IF Len(text) > 0 /\ text[Len(text)] = "\n"
                THEN Len(text) - 1 ELSE Len(text)
        starts == {i \in 1..Len(text) :
                    /\ \A j \in 1..(i - 1) : text[j] # "\n"
                    /\ i + Len(T_CO) <= stop
                    /\ SubSeq(text, i, i + Len(T_CO) - 1) = T_CO
                    /\ \A j \in (i + Len(T_CO))..stop : text[j] \notin Whitespace}
    IN  IF starts = {} THEN None
        ELSE LET i == CHOOSE i \in starts : \A j \in starts : j <= i
             IN  SubSeq(text, i, stop)

\* quoted_from setting the type before it tests where the URL leads.
RECURSIVE quoted_from_type_first(_, _, _)
quoted_from_type_first(urls, embedded_url, canonical_urls) ==
    IF urls = <<>> THEN [ttype |-> TWEET, tref |-> <<>>]
    ELSE LET entity == urls[1] IN
         IF entity.url # embedded_url
         THEN quoted_from_type_first(Tail(urls), embedded_url, canonical_urls)
         ELSE LET expanded_url == entity.expanded_url IN
              IF ~ StartsWith(expanded_url, HTTPS_TWITTER_COM)
              THEN [ttype |-> QUOTE, tref |-> <<>>]
              ELSE LET author   == IF canonical_urls THEN TWITTER
                                   ELSE SliceTo(SliceFrom(expanded_url, 20),
                                                Find(SliceFrom(expanded_url, 20), "/"))
                       tweet_id == SliceFrom(expanded_url, RFind(expanded_url, "/") + 1)
                   IN  [ttype |-> QUOTE,
                        tref  |-> TWITTER_URL_PREFIX \o author \o STATUS_PATH \o tweet_id]

\* quoted_from going on to the next entity when the expanded URL of a
\* matching entity is not on twitter.com.
RECURSIVE quoted_from_scan_on(_, _, _)
quoted_from_scan_on(urls, embedded_url, canonical_urls) ==
    IF urls = <<>> THEN [ttype |-> TWEET, tref |-> <<>>]
    ELSE LET entity == urls[1] IN
         IF entity.url # embedded_url
         THEN quoted_from_scan_on(Tail(urls), embedded_url, canonical_urls)
         ELSE LET expanded_url == entity.expanded_url IN
              IF ~ StartsWith(expanded_url, HTTPS_TWITTER_COM)
              THEN quoted_from_scan_on(Tail(urls), embedded_url, canonical_urls)
              ELSE LET author   == user_from_tweet_url(expanded_url, canonical_urls)
                       tweet_id == SliceFrom(expanded_url, RFind(expanded_url, "/") + 1)
                   IN  [ttype |-> QUOTE,
                        tref  |-> TWITTER_URL_PREFIX \o author \o STATUS_PATH \o tweet_id]

\* The loop over tweet['entities']['urls']: the first entity whose url is the
\* embedded URL decides, and the loop stops there.
RECURSIVE quoted_from(_, _, _)
quoted_from(urls, embedded_url, canonical_urls) ==
    IF urls = <<>> THEN [ttype |-> TWEET, tref |-> <<>>]
    ELSE LET entity == urls[1] IN
         IF entity.url # embedded_url
         THEN quoted_from(Tail(urls), embedded_url, canonical_urls)
         ELSE LET expanded_url == entity.expanded_url IN
              IF ~ StartsWith(expanded_url, HTTPS_TWITTER_COM)
              THEN [ttype |-> TWEET, tref |-> <<>>]
              ELSE LET author   == user_from_tweet_url(expanded_url, canonical_urls)
                       tweet_id == SliceFrom(expanded_url, RFind(expanded_url, "/") + 1)
                   IN  [ttype |-> QUOTE,
                        tref  |-> TWITTER_URL_PREFIX \o author \o STATUS_PATH \o tweet_id]

\* is_retweet testing for 'RT@', without the space.
is_retweet_no_space(tweet) == StartsWith(tweet.full_text, <<"R","T","@">>)

\* tweet['full_text'].startswith('RT @')
is_retweet(tweet) == StartsWith(tweet.full_text, RT_AT)

\* tweet.get('in_reply_to_status_id_str', None) is true
is_reply(tweet) ==
    tweet.in_reply_to_status_id_str # None /\ tweet.in_reply_to_status_id_str # <<>>

\* tweet_data(tweet): the 4-tuple of a tweet, or the exception it raises.
\* The message logged for a reply to a deleted tweet reads tweet["id"].
tweet_data(tweet, username, canonical_urls) ==
    LET tdate == tweet_date(tweet)
        turl  == tweet_url(tweet, username, canonical_urls)
        row(ttype, tref) == [ok |-> TRUE, row |-> <<tdate, turl, ttype, tref>>]
    IN  IF is_reply(tweet)
        THEN IF ~ canonical_urls /\ tweet.in_reply_to_screen_name = None /\ ~ tweet.has_id
             THEN [ok |-> FALSE, row |-> <<"KeyError">>]
             ELSE LET author == IF canonical_urls THEN TWITTER
                                ELSE IF tweet.in_reply_to_screen_name = None THEN TWITTER
                                ELSE tweet.in_reply_to_screen_name
                  IN  row(REPLY, TWITTER_URL_PREFIX \o author \o STATUS_PATH
                                       \o tweet.in_reply_to_status_id_str)
        ELSE IF is_retweet(tweet)
        THEN row(RETWEET, <<>>)
        ELSE LET embedded_url == ending_in_twitter_url(tweet.full_text) IN
             IF embedded_url = None THEN row(TWEET, <<>>)
             ELSE LET q == quoted_from(tweet.urls, embedded_url, canonical_urls)
                  IN  row(q.ttype, q.tref)

\* tweets_from: sorted(tweet_data(t) for t in all_tweets).  yielded is what
\* the generator yields to sorted(), in the order of the file: the tuple of
\* every tweet, or those before the first tweet whose tweet_data raises, the
\* exception then leaving tweets_from.
tweets_from(all_tweets, username, canonical_urls) ==
    LET results == [i \in 1..Len(all_tweets) |->
                        tweet_data(all_tweets[i], username, canonical_urls)]
        raising == {i \in 1..Len(all_tweets) : ~ results[i].ok}
        n       == IF raising = {} THEN Len(all_tweets)
                   ELSE (CHOOSE i \in raising : \A j \in raising : i <= j) - 1
        yielded == [i \in 1..n |-> results[i].row]
    IN  [ok      |-> raising = {},
         yielded |-> yielded,
         rows    |-> IF raising = {} THEN Sorted(yielded) ELSE <<>>]

\* ------------------------------------------------------------------------
\* likes_from
\* ------------------------------------------------------------------------

\* like_data taking the username for the account, whatever canonical_urls is.
like_data_username(url, username, canonical_urls) ==
    << <<>>, <<>>, LIKE, Replace(url, I_WEB, username) >>

\* The 4-tuple of one liked URL.
like_data(url, username, canonical_urls) ==
    << <<>>, <<>>, LIKE, Replace(url, I_WEB, account_of(username, canonical_urls)) >>

\* likes_from: the tuples of the likes, in the order of the file.
likes_from(likes_urls, username, canonical_urls) ==
    [i \in 1..Len(likes_urls) |-> like_data(likes_urls[i], username, canonical_urls)]

\* ------------------------------------------------------------------------
\* data_filter
\* ------------------------------------------------------------------------

\* data_filter taking the own URL of a quote for quote-tweets.
data_filter_own_url(requested, row) ==
    CASE requested = "all-tweets"   -> Join(row, <<",">>)
      [] requested = "my-tweets"    -> row[2]
      [] requested = "retweets"     -> IF row[3] = RETWEET THEN row[2] ELSE <<>>
      [] requested = "quote-tweets" -> IF row[3] = QUOTE THEN row[2] ELSE <<>>
      [] requested = "reply-tweets" -> IF row[3] = REPLY THEN row[4] ELSE <<>>
      [] requested = "likes"        -> row[4]

\* data_filter keeping, for my-tweets, the own URL of the plain tweets only.
data_filter_plain_only(requested, row) ==
    CASE requested = "all-tweets"   -> Join(row, <<",">>)
      [] requested = "my-tweets"    -> IF row[3] = TWEET THEN row[2] ELSE <<>>
      [] requested = "retweets"     -> IF row[3] = RETWEET THEN row[2] ELSE <<>>
      [] requested = "quote-tweets" -> IF row[3] = QUOTE THEN row[4] ELSE <<>>
      [] requested = "reply-tweets" -> IF row[3] = REPLY THEN row[4] ELSE <<>>
      [] requested = "likes"        -> row[4]

\* data_filter(requested)(row): the line of a row, '' for a row that is dropped.
data_filter(requested, row) ==
    CASE requested = "all-tweets"   -> Join(row, <<",">>)
      [] requested = "my-tweets"    -> row[2]
      [] requested = "retweets"     -> IF row[3] = RETWEET THEN row[2] ELSE <<>>
      [] requested = "quote-tweets" -> IF row[3] = QUOTE THEN row[4] ELSE <<>>
      [] requested = "reply-tweets" -> IF row[3] = REPLY THEN row[4] ELSE <<>>
      [] requested = "likes"        -> row[4]

\* ------------------------------------------------------------------------
\* The inputs of a run: what the archive's members may hold.
\* ------------------------------------------------------------------------

\* The most tweets and likes of a file of several records, and the most URL
\* entities of a tweet.
MaxTweets   == 2
MaxLikes    == 2
MaxEntities == 2

SeqsUpTo(S, n) == UNION {[1..k -> S] : k \in 0..n}

CAROL == <<"c","a","r","o","l">>
BOB   == <<"b","o","b">>
ALICE == <<"a","l","i","c","e">>

\* The username of account.js: a handle, or the empty string.
Usernames == {ALICE, <<>>}

\* created_at values.
DATE_2024 ==
    <<"M","o","n"," ","J","a","n"," ","0","1"," ","0","0",":","0","0",":","0","0",
      " ","+","0","0","0","0"," ","2","0","2","4">>
DATE_2023 ==
    <<"T","u","e"," ","F","e","b"," ","1","4"," ","1","2",":","3","0",":","0","0",
      " ","+","0","0","0","0"," ","2","0","2","3">>

\* Shortened URLs, as they stand in a tweet's text and in its URL entities.
SHORT_ABC == T_CO \o <<"a","b","c">>
SHORT_XYZ == T_CO \o <<"x","y","z">>

\* full_text values: plain; a retweet; ending in a shortened URL; the same
\* after a line break; a shortened URL that is not at the end; ending in a
\* shortened URL and a line break.
TEXT_PLAIN == <<"h","i">>
TEXT_RT    == RT_AT \o BOB \o <<" ">> \o SHORT_ABC
TEXT_URL   == <<"h","i"," ">> \o SHORT_ABC
TEXT_BREAK == <<"a","\n">> \o SHORT_ABC
TEXT_MID   == SHORT_ABC \o <<" ","h","i">>
TEXT_NL    == <<"h","i"," ">> \o SHORT_ABC \o <<"\n">>
Texts == {TEXT_PLAIN, TEXT_RT, TEXT_URL, TEXT_BREAK, TEXT_MID, TEXT_NL}

\* expanded_url values: a tweet of carol; a tweet under the placeholder path
\* i/web; a page that is not on twitter.com; a tweet URL that ends in '/'.
EXP_CAROL == TWITTER_URL_PREFIX \o CAROL \o STATUS_PATH \o <<"7","7">>
EXP_IWEB  == TWITTER_URL_PREFIX \o I_WEB \o STATUS_PATH \o <<"7","7">>
EXP_OTHER == <<"h","t","t","p","s",":","/","/","e","x",".","c","o","m","/","p">>
EXP_NOID  == TWITTER_URL_PREFIX \o CAROL \o STATUS_PATH

\* The URL entities a tweet may hold.
Entities ==
    {[url |-> SHORT_ABC, expanded_url |-> EXP_CAROL],
     [url |-> SHORT_ABC, expanded_url |-> EXP_IWEB],
     [url |-> SHORT_ABC, expanded_url |-> EXP_OTHER],
     [url |-> SHORT_ABC, expanded_url |-> EXP_NOID],
     [url |-> SHORT_XYZ, expanded_url |-> EXP_CAROL]}

\* The reply fields of a tweet, with whether the tweet has the field "id":
\* no reply; an empty reply id; a reply to bob; a reply to a deleted tweet
\* (no screen name), with and without "id".
ReplyFields ==
    {[in_reply_to_status_id_str |-> None, in_reply_to_screen_name |-> None, has_id |-> TRUE],
     [in_reply_to_status_id_str |-> <<>>, in_reply_to_screen_name |-> None, has_id |-> TRUE],
     [in_reply_to_status_id_str |-> <<"9">>, in_reply_to_screen_name |-> BOB, has_id |-> TRUE],
     [in_reply_to_status_id_str |-> <<"9">>, in_reply_to_screen_name |-> None, has_id |-> TRUE],
     [in_reply_to_status_id_str |-> <<"9">>, in_reply_to_screen_name |-> None, has_id |-> FALSE]}

Tweet(id_str, created_at, full_text, reply, urls) ==
    [id_str |-> id_str, created_at |-> created_at, full_text |-> full_text,
     in_reply_to_status_id_str |-> reply.in_reply_to_status_id_str,
     in_reply_to_screen_name |-> reply.in_reply_to_screen_name,
     has_id |-> reply.has_id, urls |-> urls]

\* Every tweet record over the texts, reply fields and entities above.
TweetRecords ==
    {Tweet(<<"5">>, DATE_2023, t, r, u) :
        t \in Texts, r \in ReplyFields, u \in SeqsUpTo(Entities, MaxEntities)}

NoReply == [in_reply_to_status_id_str |-> None, in_reply_to_screen_name |-> None,
            has_id |-> TRUE]

\* The tweets of a file of several records: one of each type.
SampleTweets ==
    {Tweet(<<"5">>, DATE_2024, TEXT_PLAIN, NoReply, <<>>),
     Tweet(<<"6">>, DATE_2023, TEXT_PLAIN,
           [in_reply_to_status_id_str |-> <<"9">>, in_reply_to_screen_name |-> BOB,
            has_id |-> TRUE], <<>>),
     Tweet(<<"7">>, DATE_2024, TEXT_RT, NoReply, <<>>),
     Tweet(<<"8">>, DATE_2023, TEXT_URL, NoReply,
           <<[url |-> SHORT_ABC, expanded_url |-> EXP_CAROL]>>)}

\* What tweets.js may hold: one tweet record of any kind, or up to MaxTweets
\* of the sample tweets.
TweetsFiles == {<<t>> : t \in TweetRecords} \cup SeqsUpTo(SampleTweets, MaxTweets)

\* expandedUrl values of a like: under the placeholder path; under a handle;
\* with the placeholder twice; the empty string.
LIKE_IWEB  == TWITTER_URL_PREFIX \o I_WEB \o STATUS_PATH \o <<"4","2">>
LIKE_BOB   == TWITTER_URL_PREFIX \o BOB \o STATUS_PATH \o <<"4","1">>
LIKE_TWICE == TWITTER_URL_PREFIX \o I_WEB \o <<"/">> \o I_WEB
LikeUrls == {LIKE_IWEB, LIKE_BOB, LIKE_TWICE, <<>>}

\* What like.js may hold.
LikesFiles == SeqsUpTo(LikeUrls, MaxLikes)

\* The member lists of an archive: any of the three members, in any order.
NameLists ==
    {l \in SeqsUpTo({ACCOUNT_JS, LIKE_JS, TWEETS_JS}, 3) :
        \A i, j \in 1..Len(l) : l[i] = l[j] => i = j}

\* ------------------------------------------------------------------------
\* The run of main().
\* ------------------------------------------------------------------------

VARIABLES
    pc,              \* where main() is: parse, extract, filter, write, exit
    namelist,        \* zf.namelist() of the archive
    archive_file,    \* "path": the archive is a file; "stdin": it is read from stdin
    requested,       \* EXTRACT_OPTIONS[extract]
    canonical_urls,  \* the flag --canonical-urls
    username,        \* parsed_data's username
    member,          \* the member parsed_data returned the data of, or "none"
    all_tweets,      \* the tweets read from data/tweets.js, or None
    likes_urls,      \* the expandedUrl of the likes read from data/like.js, or None
    yielded,         \* the tuples in the order the generator of tweets_from or
                     \* likes_from yields them, or None
    data,            \* main's data: the tuples parsed_data returned, or None
    filtered_data,   \* main's filtered_data: the lines to write
    output,          \* the lines written, or None
    exit_code        \* the exit code of the process, or None while it runs

vars == <<pc, namelist, archive_file, requested, canonical_urls, username, member,
          all_tweets, likes_urls, yielded, data, filtered_data, output, exit_code>>

\* The state when main() has processed its arguments and calls parsed_data.
Init ==
    /\ pc = "parse"
    /\ namelist \in NameLists
    /\ archive_file \in {"path", "stdin"}
    /\ requested \in EXTRACT_OPTIONS
    /\ canonical_urls \in BOOLEAN
    /\ username = None
    /\ member = "none"
    /\ all_tweets = None
    /\ likes_urls = None
    /\ yielded = None
    /\ data = None
    /\ filtered_data = None
    /\ output = None
    /\ exit_code = None

\* stop(msg, err) called in parsed_data with msg = '...' + source_zip: with the
\* archive read from stdin, source_zip is a BytesIO, the concatenation raises
\* TypeError, and main's handler exits with ExitCode.exception.
stop_code(err) ==
    IF archive_file = "path" THEN err ELSE ExitCode.exception

\* parsed_data, first loop: find the account name.
FindAccount ==
    /\ pc = "parse"
    /\ \E name \in (IF \E i \in 1..Len(namelist) : namelist[i] = ACCOUNT_JS
                    THEN Usernames ELSE {None}) :
         /\ username' = name
         /\ IF name = None \/ name = <<>>
            THEN pc' = "exit" /\ exit_code' = stop_code(ExitCode.file_error)
            ELSE pc' = "extract" /\ exit_code' = exit_code
    /\ UNCHANGED <<namelist, archive_file, requested, canonical_urls, member,
                   all_tweets, likes_urls, yielded, data, filtered_data, output>>

\* Whether the second loop of parsed_data returns at this item.
returns_at(item) ==
    \/ item = LIKE_JS /\ requested = "likes"
    \/ item = TWEETS_JS

\* The member the second loop of parsed_data returns the data of: the first
\* item of the member list to satisfy one of the loop's tests, or "none".
found_member ==
    IF \E i \in 1..Len(namelist) : returns_at(namelist[i])
    THEN namelist[CHOOSE i \in 1..Len(namelist) :
                    /\ returns_at(namelist[i])
                    /\ \A j \in 1..(i - 1) : ~ returns_at(namelist[j])]
    ELSE "none"

\* parsed_data, second loop, at data/like.js: return likes_from(...).
ExtractLikes ==
    /\ pc = "extract"
    /\ found_member = LIKE_JS
    /\ \E likes \in LikesFiles :
         /\ likes_urls' = likes
         /\ yielded' = likes_from(likes, username, canonical_urls)
         /\ data' = likes_from(likes, username, canonical_urls)
    /\ member' = LIKE_JS
    /\ pc' = "filter"
    /\ UNCHANGED <<namelist, archive_file, requested, canonical_urls, username,
                   all_tweets, filtered_data, output, exit_code>>

\* parsed_data, second loop, at data/tweets.js: return tweets_from(...); an
\* exception of tweet_data ends the run in main's handler.
ExtractTweets ==
    /\ pc = "extract"
    /\ found_member = TWEETS_JS
    /\ \E tweets \in TweetsFiles :
         LET result == tweets_from(tweets, username, canonical_urls) IN
         /\ all_tweets' = tweets
         /\ yielded' = result.yielded
         /\ IF result.ok
            THEN data' = result.rows /\ pc' = "filter" /\ exit_code' = exit_code
            ELSE data' = data /\ pc' = "exit" /\ exit_code' = ExitCode.exception
    /\ member' = TWEETS_JS
    /\ UNCHANGED <<namelist, archive_file, requested, canonical_urls, username,
                   likes_urls, filtered_data, output>>

\* parsed_data, second loop, finding no member to read: it returns None.
ExtractNothing ==
    /\ pc = "extract"
    /\ found_member = "none"
    /\ pc' = "filter"
    /\ UNCHANGED <<namelist, archive_file, requested, canonical_urls, username, member,
                   all_tweets, likes_urls, yielded, data, filtered_data, output,
                   exit_code>>

\* filter(None, map(data_filter(requested), data)): the lines of the rows,
\* without the empty ones.  map() of None raises TypeError.
FilterData ==
    /\ pc = "filter"
    /\ IF data = None
       THEN /\ pc' = "exit"
            /\ exit_code' = ExitCode.exception
            /\ filtered_data' = filtered_data
       ELSE /\ pc' = "write"
            /\ exit_code' = exit_code
            /\ filtered_data' =
                 SelectSeq([i \in 1..Len(data) |-> data_filter(requested, data[i])],
                           LAMBDA line : line # <<>>)
    /\ UNCHANGED <<namelist, archive_file, requested, canonical_urls, username, member,
                   all_tweets, likes_urls, yielded, data, output>>

\* write_data(filtered_data, output), and the exit of main with success.
WriteData ==
    /\ pc = "write"
    /\ output' = filtered_data
    /\ pc' = "exit"
    /\ exit_code' = ExitCode.success
    /\ UNCHANGED <<namelist, archive_file, requested, canonical_urls, username, member,
                   all_tweets, likes_urls, yielded, data, filtered_data>>

Next ==
    \/ FindAccount
    \/ ExtractLikes
    \/ ExtractTweets
    \/ ExtractNothing
    \/ FilterData
    \/ WriteData

Spec == Init /\ [][Next]_vars

\* ------------------------------------------------------------------------
\* Properties.
\* ------------------------------------------------------------------------

Range(seq) == {seq[i] : i \in 1..Len(seq)}

\* The form https://twitter.com/twitter/status/TWEETID
IsCanonicalUrl(url) == StartsWith(url, TWITTER_URL_PREFIX \o TWITTER \o STATUS_PATH)

\* rows is in ascending order.
IsSorted(rows) == \A i, j \in 1..Len(rows) : i < j => ~ RowLess(rows[j], rows[i])

\* a and b hold the same rows, each the same number of times.
SameRows(a, b) ==
    /\ Len(a) = Len(b)
    /\ \A r \in Range(a) \cup Range(b) :
         Cardinality({i \in 1..Len(a) : a[i] = r}) = Cardinality({i \in 1..Len(b) : b[i] = r})

\* (C1) In mode 'likes', with an archive that holds account.js, like.js and
\* tweets.js in any order, every line written is the referenced URL of a like
\* tuple built from data/like.js.
C1_LikesOutputIsLikedUrls ==
    (/\ output # None
     /\ requested = "likes"
     /\ {ACCOUNT_JS, LIKE_JS, TWEETS_JS} \subseteq Range(namelist))
    => \A i \in 1..Len(output) :
         /\ member = LIKE_JS
         /\ \E k \in 1..Len(yielded) : yielded[k][3] = LIKE /\ yielded[k][4] = output[i]

\* (C2) Every tuple has one of the five types, and its referenced URL is
\* non-empty if and only if the type is reply, quote or like.
C2_ReferencedUrlIffReplyQuoteLike ==
    yielded # None =>
        \A i \in 1..Len(yielded) :
            /\ yielded[i][3] \in {TWEET, REPLY, RETWEET, QUOTE, LIKE}
            /\ yielded[i][4] # <<>> <=> yielded[i][3] \in {REPLY, QUOTE, LIKE}

\* (C2, amended) Every tuple has one of the five types, and its referenced
\* URL is non-empty if and only if the type is reply or quote, or the type is
\* like and the expandedUrl of the like record is not the empty string.
C2_ReferencedUrlIffReplyQuoteNonEmptyLike ==
    yielded # None =>
        \A i \in 1..Len(yielded) :
            /\ yielded[i][3] \in {TWEET, REPLY, RETWEET, QUOTE, LIKE}
            /\ yielded[i][4] # <<>> <=>
                 \/ yielded[i][3] \in {REPLY, QUOTE}
                 \/ yielded[i][3] = LIKE /\ likes_urls[i] # <<>>

\* A like record with an empty expandedUrl has become a like tuple with an
\* empty referenced URL.
C2_Witness ==
    /\ member = LIKE_JS
    /\ \E i \in 1..Len(yielded) :
         likes_urls[i] = <<>> /\ yielded[i][3] = LIKE /\ yielded[i][4] = <<>>

\* (C3) Every tweet whose full_text starts with 'RT @' gets the type retweet
\* and an empty referenced URL, whatever its other fields.
C3_RTPrefixIsRetweet ==
    member = TWEETS_JS =>
        \A i \in 1..Len(yielded) :
            StartsWith(all_tweets[i].full_text, RT_AT)
            => yielded[i][3] = RETWEET /\ yielded[i][4] = <<>>

\* (C3, amended) Every tweet whose full_text starts with 'RT @' and that has
\* no non-empty in_reply_to_status_id_str gets the type retweet and an empty
\* referenced URL, whatever its other fields.
C3_RTPrefixNotReplyIsRetweet ==
    member = TWEETS_JS =>
        \A i \in 1..Len(yielded) :
            (/\ StartsWith(all_tweets[i].full_text, RT_AT)
             /\ all_tweets[i].in_reply_to_status_id_str \in {None, <<>>})
            => yielded[i][3] = RETWEET /\ yielded[i][4] = <<>>

\* A tweet whose text starts with 'RT @' and ends with a shortened URL that
\* an entity expands to a tweet has got the type retweet.
C3_Witness ==
    /\ member = TWEETS_JS
    /\ \E i \in 1..Len(yielded) :
         /\ all_tweets[i].full_text = TEXT_RT
         /\ all_tweets[i].urls = <<[url |-> SHORT_ABC, expanded_url |-> EXP_CAROL]>>
         /\ yielded[i][3] = RETWEET

\* (C4) Every tweet with a non-empty in_reply_to_status_id_str is classified
\* without an exception, as a reply to
\* https://twitter.com/<author>/status/<in_reply_to_status_id_str>, the author
\* being 'twitter' if canonical, else in_reply_to_screen_name if present, else
\* 'twitter'.
C4_ReplyIsClassified ==
    member = TWEETS_JS =>
        \A i \in 1..Len(all_tweets) :
            LET tweet  == all_tweets[i]
                author == IF canonical_urls \/ tweet.in_reply_to_screen_name = None
                          THEN TWITTER ELSE tweet.in_reply_to_screen_name
            IN  (tweet.in_reply_to_status_id_str # None
                    /\ tweet.in_reply_to_status_id_str # <<>>)
                => /\ i <= Len(yielded)
                   /\ yielded[i][3] = REPLY
                   /\ yielded[i][4] = TWITTER_URL_PREFIX \o author \o STATUS_PATH
                                        \o tweet.in_reply_to_status_id_str

\* (C5) With --canonical-urls, every URL written, in every mode, has the
\* form https://twitter.com/twitter/status/TWEETID (for all-tweets: the URLs
\* of columns 2 and 4).
C5_CanonicalUrlsEverywhere ==
    (output # None /\ canonical_urls) =>
        IF requested = "all-tweets"
        THEN \A k \in 1..Len(data) :
                /\ IsCanonicalUrl(data[k][2])
                /\ data[k][4] # <<>> => IsCanonicalUrl(data[k][4])
        ELSE \A i \in 1..Len(output) : IsCanonicalUrl(output[i])

Occurrences(url) ==
    {i \in 1..(Len(url) - Len(I_WEB) + 1) : SubSeq(url, i, i + Len(I_WEB) - 1) = I_WEB}

\* result is url with account in the place of each 'i/web', and the other
\* characters of url, in their order, around them.
IsUrlWithAccount(url, result, account) ==
    LET occ       == Occurrences(url)
        shift     == Len(account) - Len(I_WEB)
        before(j) == Cardinality({i \in occ : i < j})
        inside(j) == \E i \in occ : i <= j /\ j < i + Len(I_WEB)
    IN  /\ Len(result) = Len(url) + Cardinality(occ) * shift
        /\ \A i \in occ :
             SubSeq(result, i + before(i) * shift,
                    i + before(i) * shift + Len(account) - 1) = account
        /\ \A j \in 1..Len(url) :
             ~ inside(j) => result[j + before(j) * shift] = url[j]

TrailingUrlStarts(text) ==
    {k \in 1..Len(text) :
        /\ k + Len(T_CO) <= Len(text)
        /\ SubSeq(text, k, k + Len(T_CO) - 1) = T_CO
        /\ \A j \in (k + Len(T_CO))..Len(text) : text[j] \notin Whitespace}

\* (C8) A tweet that is no reply and no retweet, whose text ends with a
\* shortened URL that the entities expand to a URL starting with
\* 'https://twitter.com', gets the type quote, whatever precedes the URL in
\* the text (line breaks included).  The entities are taken to expand the
\* URL to twitter.com wherever they hold it, so that the order of the
\* entities plays no part.
C8_TrailingTwitterUrlIsQuote ==
    member = TWEETS_JS =>
        \A i \in 1..Len(yielded) :
            LET tweet == all_tweets[i] IN
            \A k \in TrailingUrlStarts(tweet.full_text) :
                LET url == SubSeq(tweet.full_text, k, Len(tweet.full_text)) IN
                (/\ tweet.in_reply_to_status_id_str \in {None, <<>>}
                 /\ ~ StartsWith(tweet.full_text, RT_AT)
                 /\ \E n \in 1..Len(tweet.urls) : tweet.urls[n].url = url
                 /\ \A n \in 1..Len(tweet.urls) :
                      tweet.urls[n].url = url
                      => StartsWith(tweet.urls[n].expanded_url, HTTPS_TWITTER_COM))
                => yielded[i][3] = QUOTE

\* The expanded URL that decided a quote: that of the first entity whose url
\* is the shortened URL the text ends with.
QuotedExpandedUrl(tweet) ==
    LET url == ending_in_twitter_url(tweet.full_text)
        n   == CHOOSE n \in 1..Len(tweet.urls) :
                 /\ tweet.urls[n].url = url
                 /\ \A m \in 1..(n - 1) : tweet.urls[m].url # url
    IN  tweet.urls[n].expanded_url

\* The part of url after its last '/'.
AfterLastSlash(url) ==
    LET k == CHOOSE k \in 1..Len(url) :
               url[k] = "/" /\ \A j \in (k + 1)..Len(url) : url[j] # "/"
    IN  SubSeq(url, k + 1, Len(url))

RowsOfType(rows, ttype) == SelectSeq(rows, LAMBDA row : row[3] = ttype)

\* (C10) In the modes retweets, quote-tweets and reply-tweets, the output is
\* one line for each tuple of the type retweet, quote, reply, in the order of
\* the tuples, and nothing else: the own URL of a retweet, the referenced URL
\* of a quote or a reply.
C10_TypeModesWriteTheRowsOfTheType ==
    (output # None /\ requested \in {"retweets", "quote-tweets", "reply-tweets"}) =>
        LET ttype   == CASE requested = "retweets"     -> RETWEET
                         [] requested = "quote-tweets" -> QUOTE
                         [] requested = "reply-tweets" -> REPLY
            column  == IF requested = "retweets" THEN 2 ELSE 4
            matches == RowsOfType(data, ttype)
        IN  /\ Len(output) = Len(matches)
            /\ \A i \in 1..Len(matches) : output[i] = matches[i][column]

\* In mode quote-tweets, of a quote and a tweet of another type, the
\* referenced URL of the quote alone has been written.
C10_Witness ==
    /\ output # None
    /\ requested = "quote-tweets"
    /\ Len(data) = 2
    /\ data[1][3] = QUOTE
    /\ data[2][3] # QUOTE
    /\ output = <<data[1][4]>>

\* line.split(sep) for a one-character sep: the columns of a line.
RECURSIVE Split(_, _)
Split(line, sep) ==
    IF Find(line, sep) = -1 THEN <<line>>
    ELSE <<SliceTo(line, Find(line, sep))>>
            \o Split(SliceFrom(line, Find(line, sep) + 1), sep)

\* The lines a run in the given mode writes for the archive and the flag of
\* this run, the archive's tweets being read: the lines of the tuples of
\* tweets_from, without the empty ones.  (Among the modes but 'likes',
\* parsed_data reads the same member whatever the mode.)
LinesOf(mode) ==
    LET rows == tweets_from(all_tweets, username, canonical_urls).rows
    IN  SelectSeq([i \in 1..Len(rows) |-> data_filter(mode, rows[i])],
                  LAMBDA line : line # <<>>)

C12_MissingAccountIsFileError ==
    (/\ pc = "exit"
     /\ \/ ACCOUNT_JS \notin Range(namelist)
        \/ username = <<>>)
    => /\ exit_code = ExitCode.file_error
       /\ yielded = None
       /\ output = None

\* The places of the entities of tweet whose url is the given URL.
MatchingEntities(tweet, url) == {n \in 1..Len(tweet.urls) : tweet.urls[n].url = url}

\* (C13) For a tweet that is no reply and no retweet and whose text ends with
\* a shortened URL, the first entity whose url is that URL decides alone: if
\* there is none, or if its expanded_url does not start with
\* 'https://twitter.com', the tuple has the type tweet and an empty referenced
\* URL, whatever the later entities hold; otherwise it has the type quote.
\* Entities with another url decide nothing.
C13_FirstMatchingEntityDecides ==
    member = TWEETS_JS =>
        \A i \in 1..Len(yielded) :
            LET tweet    == all_tweets[i]
                url      == ending_in_twitter_url(tweet.full_text)
                matching == MatchingEntities(tweet, url)
                first    == CHOOSE n \in matching : \A m \in matching : n <= m
            IN  (/\ tweet.in_reply_to_status_id_str \in {None, <<>>}
                 /\ ~ StartsWith(tweet.full_text, RT_AT)
                 /\ url # None)
                => IF matching = {}
                      \/ ~ StartsWith(tweet.urls[first].expanded_url, HTTPS_TWITTER_COM)
                   THEN yielded[i][3] = TWEET /\ yielded[i][4] = <<>>
                   ELSE yielded[i][3] = QUOTE

\* A tweet whose text ends with a shortened URL that its first entity expands
\* to a page outside twitter.com and its second entity to a tweet has got the
\* type tweet and an empty referenced URL.
C13_Witness ==
    /\ member = TWEETS_JS
    /\ \E i \in 1..Len(yielded) :
         /\ all_tweets[i].full_text = TEXT_URL
         /\ all_tweets[i].in_reply_to_status_id_str = None
         /\ all_tweets[i].urls = <<[url |-> SHORT_ABC, expanded_url |-> EXP_OTHER],
                                   [url |-> SHORT_ABC, expanded_url |-> EXP_CAROL]>>
         /\ yielded[i][3] = TWEET
         /\ yielded[i][4] = <<>>

=============================================================================
